---- MODULE Spec2Model ----
(***************************************************************************)
(* A model of automata: the dependency-ordered lifecycle orchestrator.     *)
(*                                                                         *)
(*   src/main.py                      the command line entry point         *)
(*   src/automata/service_manager.py  validation, the four orderers, runs  *)
(*   src/automata/service.py          Service: start, stop, uninstall      *)
(*   src/automata/install.py          the three installers                 *)
(*                                                                         *)
(* One behaviour is one invocation of the program: the arguments are       *)
(* parsed, the ServiceManager is constructed (load and validate), the      *)
(* operation is planned (an order is computed) and the order is executed   *)
(* one service at a time.  The file system and the ports are the external  *)
(* system: installed, install_dir and reachable.                           *)
(*                                                                         *)
(* Python leaves the iteration order of a set unspecified: every orderer   *)
(* that iterates a set is modelled by the set of all the orders it can     *)
(* return, and planning picks any of them.                                 *)
(***************************************************************************)
EXTENDS Naturals, Integers, Sequences, FiniteSets, TLC

(* ------------------------------ bounds -------------------------------- *)

\* At most this many services in the descriptor list.
MaxServices == 3

\* At most this many names in one depends_on list.
MaxDeps == 2

\* At most this many names in one comma-separated request.
MaxRequest == 2

\* At most this many config items per service.
MaxConfigs == 1

\* At most this many processes in the table process_iter walks.
MaxProcs == 2

\* At most this many services in the fleets that are found on a machine in
\* any state.
MaxFleet == 2

(* ----------------------------- constants ------------------------------ *)

\* range(5): the reachability probes after the launch.
PollRetries == 5

\* The names services are drawn from, in descriptor-list order.  A
\* descriptor list of n services is the first n of them: the names carry no
\* meaning, so every list of n distinct names is this one up to renaming.
NamePool == <<"db", "cache", "api", "worker", "web", "queue">>

\* A name that is the name of no service.
Ghost == "ghost"

InstallerTypes == {"binary", "brew", "local_bin"}

VARIABLES
    services,          \* ServiceManager.services: the names, in list order
    depends_on,        \* Service.depends_on: name -> list of names
    kind,              \* installer_data["type"] of each service
    post_install_cmd,  \* whether the installer has a post install command
    configs,           \* the number of config items of each service
    installed,         \* Installer.is_installed, as the file system has it
    install_dir,       \* whether install_path exists
    reachable,         \* whether the port of the service accepts a connection
    hook_done,         \* whether the post install command has completed
                       \* since the service last became installed
    pc,                \* where the invocation is
    args,              \* the operation flag given on the command line
    op,                \* the ServiceManager operation invoked
    service_names,     \* the requested names of a subset operation
    err,               \* the error that ended the invocation
    cycle_path,        \* the path of the circular dependency error
    order,             \* the computed order: a list of groups
    gi,                \* the group being executed (0: nothing planned yet)
    si,                \* the next member of that group
    trace,             \* the handlers invoked in this run, with their results
    calls,             \* the collaborator calls of the last handler invoked
    process_table      \* the processes process_iter gave the last handler

vars == <<services, depends_on, kind, post_install_cmd, configs, installed,
          install_dir, reachable, hook_done, pc, args, op, service_names, err,
          cycle_path, order, gi, si, trace, calls, process_table>>

config_vars == <<services, depends_on, kind, post_install_cmd, configs>>

system_vars == <<installed, install_dir, reachable, hook_done>>

(* ------------------------------ helpers ------------------------------- *)

Range(q) == {q[i] : i \in 1..Len(q)}

InSeq(x, q) == \E i \in 1..Len(q) : q[i] = x

\* The lists of at most k distinct members of S.
ListsOf(S, k) ==
    UNION {{q \in [1..m -> S] : \A i, j \in 1..m : q[i] = q[j] => i = j} :
           m \in 0..k}

\* The non-empty lists of at most k members of S (repeats allowed).
RequestsOf(S, k) == UNION {[1..m -> S] : m \in 1..k}

RECURSIVE Repeat(_, _)
Repeat(q, k) == IF k = 0 THEN <<>> ELSE q \o Repeat(q, k - 1)

Names == Range(services)

(* ------------------- ServiceManager: validation ----------------------- *)

\* get_service: the service of that name, or "Service not found".
get_service_found(name) == name \in Names

\* A faulty specific_services: it drops the names that are no service.
specific_services_lenient(names) ==
    [found |-> TRUE, list |-> SelectSeq(names, get_service_found)]

\* [self.get_service(name) for name in service_names]: the list of the
\* requested services, or "Service not found" at the first unknown name.
specific_services(names) ==
    IF \E i \in 1..Len(names) : ~get_service_found(names[i])
    THEN [found |-> FALSE, list |-> <<>>]
    ELSE [found |-> TRUE, list |-> names]

\* The services that declare a dependency that is no service: the first
\* loop of _validate_dependencies raises when there is one.
invalid_dependencies ==
    {s \in Names : \E i \in 1..Len(depends_on[s]) : depends_on[s][i] \notin Names}

\* check_circular(service, path): <<>> when it returns, the reported path
\* when it raises.
RECURSIVE check_circular(_, _), check_circular_deps(_, _, _)
check_circular(s, path) ==
    IF InSeq(s, path)
    THEN Append(path, s)
    ELSE check_circular_deps(s, 1, Append(path, s))

check_circular_deps(s, i, path) ==
    IF i > Len(depends_on[s])
    THEN <<>>
    ELSE LET r == check_circular(depends_on[s][i], path)
         IN  IF r # <<>> THEN r ELSE check_circular_deps(s, i + 1, path)

\* A faulty loop of check_circular: it walks from the first service only.
check_circular_first_only(i) ==
    IF i > Len(services) THEN <<>> ELSE check_circular(services[i], <<>>)

\* for service in self.services: check_circular(service, [])
RECURSIVE check_circular_all(_)
check_circular_all(i) ==
    IF i > Len(services)
    THEN <<>>
    ELSE LET r == check_circular(services[i], <<>>)
         IN  IF r # <<>> THEN r ELSE check_circular_all(i + 1)

\* A faulty _validate_dependencies: it lets unknown dependency names pass.
validate_dependencies_cycles_only ==
    IF invalid_dependencies # {}
    THEN [err |-> "none", path |-> <<>>]
    ELSE LET r == check_circular_all(1)
         IN  IF r # <<>>
             THEN [err |-> "circular", path |-> r]
             ELSE [err |-> "none", path |-> <<>>]

\* _validate_dependencies: the error it raises ("none": it returns) and the
\* path of a circular dependency error.
validate_dependencies ==
    IF invalid_dependencies # {}
    THEN [err |-> "invalid_dependency", path |-> <<>>]
    ELSE LET r == check_circular_all(1)
         IN  IF r # <<>>
             THEN [err |-> "circular", path |-> r]
             ELSE [err |-> "none", path |-> <<>>]

(* -------------------- ServiceManager: the orderers -------------------- *)

\* The state of an ascending orderer: order, started_services and
\* no_deps_services.
StartState0 == [order |-> <<>>, started |-> {}, no_deps |-> <<>>]

\* A faulty insert_no_deps: order.append(no_deps_services).
insert_no_deps_last(ord, no_deps) ==
    IF no_deps # <<>> THEN ord \o <<no_deps>> ELSE ord

\* A faulty insert_no_deps: every dependency-free service gets a group of
\* its own.
insert_no_deps_one_by_one(ord, no_deps) ==
    [i \in 1..Len(no_deps) |-> <<no_deps[i]>>] \o ord

\* A faulty insert_no_deps: it returns the order without the
\* dependency-free services.
insert_no_deps_dropped(ord, no_deps) == ord

\* order.insert(0, no_deps_services), when there are any.
insert_no_deps(ord, no_deps) ==
    IF no_deps # <<>> THEN <<no_deps>> \o ord ELSE ord

\* add_service of _get_start_order.
RECURSIVE start_add_service(_, _), start_add_deps(_, _, _)
start_add_service(s, st) ==
    IF s \in st.started
    THEN st
    ELSE IF depends_on[s] = <<>>
    THEN IF InSeq(s, st.no_deps)
         THEN st
         ELSE [st EXCEPT !.no_deps = Append(@, s)]
    ELSE LET st2 == start_add_deps(depends_on[s], 1, st)
         IN  IF s \notin st2.started
             THEN [st2 EXCEPT !.order = Append(@, <<s>>),
                              !.started = @ \cup {s}]
             ELSE st2

start_add_deps(deps, i, st) ==
    IF i > Len(deps)
    THEN st
    ELSE start_add_deps(deps, i + 1,
                        IF deps[i] \notin st.started
                        THEN start_add_service(deps[i], st)
                        ELSE st)

\* for service in self.services: add_service(service)
RECURSIVE start_loop(_, _)
start_loop(i, st) ==
    IF i > Len(services)
    THEN st
    ELSE start_loop(i + 1, start_add_service(services[i], st))

\* _get_start_order: the order of install-all and start-all.
get_start_order ==
    LET st == start_loop(1, StartState0)
    IN  insert_no_deps(st.order, st.no_deps)

\* A faulty "Add dependencies first" of _get_start_order_for_specific: it
\* adds none.
specific_start_add_deps_none(deps, i, st) == st

\* add_service of _get_start_order_for_specific.
RECURSIVE specific_start_add_service(_, _), specific_start_add_deps(_, _, _)
specific_start_add_service(s, st) ==
    IF s \in st.started
    THEN st
    ELSE LET st2 == specific_start_add_deps(depends_on[s], 1, st)
         IN  IF s \notin st2.started
             THEN IF depends_on[s] # <<>>
                  THEN [st2 EXCEPT !.order = Append(@, <<s>>),
                                   !.started = @ \cup {s}]
                  ELSE [st2 EXCEPT !.no_deps = Append(@, s),
                                   !.started = @ \cup {s}]
             ELSE st2

specific_start_add_deps(deps, i, st) ==
    IF i > Len(deps)
    THEN st
    ELSE specific_start_add_deps(deps, i + 1,
                                 IF deps[i] \notin st.started
                                 THEN specific_start_add_service(deps[i], st)
                                 ELSE st)

\* service_names_set: the requested names and their direct dependencies.
specific_names_set(specific) ==
    Range(specific) \cup UNION {Range(depends_on[s]) : s \in Range(specific)}

\* for service_name in service_names_set: add_service(...), in every
\* iteration order of the set: the states the loop can end in.
RECURSIVE specific_start_loop(_, _)
specific_start_loop(S, st) ==
    IF S = {}
    THEN {st}
    ELSE UNION {specific_start_loop(S \ {x}, specific_start_add_service(x, st)) :
                x \in S}

\* _get_start_order_for_specific: the orders it can return.
get_start_order_for_specific(specific) ==
    {insert_no_deps(st.order, st.no_deps) :
        st \in specific_start_loop(specific_names_set(specific), StartState0)}

\* dependents_map[name]: the services that list name in depends_on.
dependents_map(name) == {t \in Names : InSeq(name, depends_on[t])}

\* The state of a descending orderer: order and stopped_services.
StopState0 == [order |-> <<>>, stopped |-> {}]

\* order[-1].append(name)
append_to_last(ord, name) ==
    [ord EXCEPT ![Len(ord)] = Append(@, name)]

\* A faulty stop_place: it joins the last group whatever its dependents.
stop_place_joins_last(s, dependents, st) ==
    IF s \notin st.stopped
    THEN [order   |-> IF st.order # <<>>
                      THEN append_to_last(st.order, s)
                      ELSE Append(st.order, <<s>>),
          stopped |-> st.stopped \cup {s}]
    ELSE st

\* "Add the service itself if not already added" of _get_stop_order.
stop_place(s, dependents, st) ==
    IF s \notin st.stopped
    THEN [order   |-> IF st.order # <<>> /\ dependents = {}
                      THEN append_to_last(st.order, s)
                      ELSE Append(st.order, <<s>>),
          stopped |-> st.stopped \cup {s}]
    ELSE st

\* add_service of _get_stop_order: the states it can end in, over the
\* iteration orders of the dependents sets.
RECURSIVE stop_add_service(_, _), stop_add_dependents(_, _)
stop_add_service(s, st) ==
    IF s \in st.stopped
    THEN {st}
    ELSE {stop_place(s, dependents_map(s), st2) :
            st2 \in stop_add_dependents(dependents_map(s), st)}

stop_add_dependents(D, st) ==
    IF D = {}
    THEN {st}
    ELSE UNION {UNION {stop_add_dependents(D \ {x}, st2) :
                       st2 \in IF x \notin st.stopped
                               THEN stop_add_service(x, st)
                               ELSE {st}} :
                x \in D}

\* A faulty loop of _get_stop_order: it places every service as the list
\* has it, without its dependents first.
RECURSIVE stop_loop_list_order(_, _)
stop_loop_list_order(i, sts) ==
    IF i > Len(services)
    THEN sts
    ELSE stop_loop_list_order(i + 1,
            {stop_place(services[i], dependents_map(services[i]), st) : st \in sts})

\* for service in self.services: add_service(service)
RECURSIVE stop_loop(_, _)
stop_loop(i, sts) ==
    IF i > Len(services)
    THEN sts
    ELSE stop_loop(i + 1,
                   UNION {stop_add_service(services[i], st) : st \in sts})

\* _get_stop_order: the orders it can return (stop-all and uninstall-all).
get_stop_order == {st.order : st \in stop_loop(1, {StopState0})}

\* "Add the service itself if not already added" of
\* _get_stop_order_for_specific.
specific_stop_place(s, dependents, st) ==
    IF s \notin st.stopped
    THEN [order   |-> IF dependents # {}
                      THEN Append(st.order, <<s>>)
                      ELSE IF st.order # <<>> /\ dependents = {}
                      THEN append_to_last(st.order, s)
                      ELSE Append(st.order, <<s>>),
          stopped |-> st.stopped \cup {s}]
    ELSE st

\* A faulty walk of the dependents in _get_stop_order_for_specific: it
\* adds none.
specific_stop_add_dependents_none(D, st) == {st}

\* add_service of _get_stop_order_for_specific.
RECURSIVE specific_stop_add_service(_, _), specific_stop_add_dependents(_, _)
specific_stop_add_service(s, st) ==
    IF s \in st.stopped
    THEN {st}
    ELSE {specific_stop_place(s, dependents_map(s), st2) :
            st2 \in specific_stop_add_dependents(dependents_map(s), st)}

specific_stop_add_dependents(D, st) ==
    IF D = {}
    THEN {st}
    ELSE UNION {UNION {specific_stop_add_dependents(D \ {x}, st2) :
                       st2 \in IF x \notin st.stopped
                               THEN specific_stop_add_service(x, st)
                               ELSE {st}} :
                x \in D}

\* for service in specific_services: add_service(service)
RECURSIVE specific_stop_loop(_, _, _)
specific_stop_loop(specific, i, sts) ==
    IF i > Len(specific)
    THEN sts
    ELSE specific_stop_loop(specific, i + 1,
            UNION {specific_stop_add_service(specific[i], st) : st \in sts})

\* _get_stop_order_for_specific: the orders it can return.
get_stop_order_for_specific(specific) ==
    {st.order : st \in specific_stop_loop(specific, 1, {StopState0})}

(* --------------------------- the installers --------------------------- *)

\* What one handler invocation on a service can do: the state it leaves
\* the service in, the collaborator calls it made, and how it ended.
Outcome(inst, dir, reach, cl, res) ==
    [installed |-> inst, install_dir |-> dir, reachable |-> reach,
     calls |-> cl, result |-> res, procs |-> <<>>]

\* The calls that change the file system or the processes; the others
\* only look.
MutatingCalls ==
    {"makedirs", "download_file", "extract_archive", "create_symlinks",
     "remove_archive", "post_install", "brew_install", "copy",
     "config_apply", "Popen", "send_signal", "remove_symlink", "rmtree",
     "brew_remove"}

\* ensure_dir_exists(install_path)
ensure_install_dir(s) == IF install_dir[s] THEN <<>> ELSE <<"makedirs">>

\* Installer.post_install, after the calls cl left the service installed.
post_install(s, cl) ==
    IF post_install_cmd[s]
    THEN {Outcome(TRUE, TRUE, reachable[s], Append(cl, "post_install"), "ok"),
          Outcome(TRUE, TRUE, reachable[s], Append(cl, "post_install"), "raised")}
    ELSE {Outcome(TRUE, TRUE, reachable[s], cl, "ok")}

\* BinaryInstaller.install: download, extract, symlink, remove the
\* archive, post install; each of the first three may raise.
BinaryInstaller_install(s) ==
    IF installed[s]
    THEN {Outcome(TRUE, install_dir[s], reachable[s], <<"is_installed">>, "ok")}
    ELSE LET c0 == <<"is_installed">> \o ensure_install_dir(s)
             c1 == Append(c0, "download_file")
             c2 == Append(c1, "extract_archive")
             c3 == Append(c2, "create_symlinks")
         IN  {Outcome(FALSE, TRUE, reachable[s], c, "raised") : c \in {c1, c2, c3}}
             \cup post_install(s, Append(c3, "remove_archive"))

\* A faulty BrewInstaller.install: it does not create the symlinks.
BrewInstaller_install_without_symlinks(s) ==
    IF installed[s]
    THEN {Outcome(TRUE, install_dir[s], reachable[s], <<"is_installed">>, "ok")}
    ELSE {Outcome(FALSE, install_dir[s], reachable[s],
                  <<"is_installed", "brew_install">>, "raised"),
          Outcome(FALSE, install_dir[s], reachable[s],
                  <<"is_installed", "brew_install">>, "ok")}

\* BrewInstaller.install: brew install, symlink, post install.
BrewInstaller_install(s) ==
    IF installed[s]
    THEN {Outcome(TRUE, install_dir[s], reachable[s], <<"is_installed">>, "ok")}
    ELSE LET c1 == <<"is_installed", "brew_install">>
             c2 == Append(c1, "create_symlinks")
         IN  {Outcome(FALSE, install_dir[s], reachable[s], c1, "raised"),
              Outcome(FALSE, TRUE, reachable[s], c2, "raised")}
             \cup post_install(s, c2)

\* BinInstaller.install: copy the source directory, symlink.  It does not
\* look at is_installed.  A failing re-creation of the symlinks may or may
\* not leave the service installed.
BinInstaller_install(s) ==
    LET c1 == Append(ensure_install_dir(s), "copy")
        c2 == Append(c1, "create_symlinks")
    IN  {Outcome(installed[s], TRUE, reachable[s], c1, "raised")}
        \cup {Outcome(b, TRUE, reachable[s], c2, "raised") : b \in {installed[s], FALSE}}
        \cup {Outcome(TRUE, TRUE, reachable[s], c2, "ok")}

\* service.installer.install()
installer_install(s) ==
    CASE kind[s] = "binary"    -> BinaryInstaller_install(s)
      [] kind[s] = "brew"      -> BrewInstaller_install(s)
      [] kind[s] = "local_bin" -> BinInstaller_install(s)

\* A faulty Installer.uninstall: it removes the symlinks and leaves the
\* install directory.
Installer_uninstall_keeps_dir(s, reach, cl) ==
    LET c1 == IF installed[s] THEN Append(cl, "remove_symlink") ELSE cl
    IN  {Outcome(FALSE, install_dir[s], reach, c1, "ok")}

\* Installer.uninstall, after the calls cl, from reachability reach: remove
\* the symlinks, then the install directory.
Installer_uninstall(s, reach, cl) ==
    LET c1 == IF installed[s] THEN Append(cl, "remove_symlink") ELSE cl
    IN  IF install_dir[s]
        THEN {Outcome(FALSE, FALSE, reach, Append(c1, "rmtree"), "ok"),
              Outcome(FALSE, TRUE, reach, Append(c1, "rmtree"), "raised")}
        ELSE {Outcome(FALSE, FALSE, reach, c1, "ok")}

\* service.installer.uninstall(): BrewInstaller runs brew remove first.
installer_uninstall(s, reach, cl) ==
    IF kind[s] = "brew"
    THEN Installer_uninstall(s, reach, Append(cl, "brew_remove"))
    ELSE Installer_uninstall(s, reach, cl)

(* ----------------------------- Service -------------------------------- *)

\* for config in self.configs: config.apply(), after the outcome o of the
\* install: all applied, or the i-th raises.
apply_configs(s, o) ==
    {[o EXCEPT !.calls = @ \o Repeat(<<"config_apply">>, i), !.result = "raised"] :
        i \in 1..configs[s]}
    \cup {[o EXCEPT !.calls = @ \o Repeat(<<"config_apply">>, configs[s])]}

\* A faulty launch_and_poll: it raises when the probes are used up.
launch_and_poll_raises(s, o) ==
    LET cl == Append(o.calls, "Popen")
    IN  {[o EXCEPT !.reachable = TRUE,
                   !.calls = cl \o Repeat(<<"is_service_open", "sleep">>, k - 1)
                                \o <<"is_service_open">>,
                   !.result = "started"] : k \in 1..PollRetries}
        \cup {[o EXCEPT !.calls = cl \o Repeat(<<"is_service_open", "sleep">>,
                                               PollRetries),
                        !.result = "raised"]}

\* A faulty launch_and_poll: it goes on probing after the port was found
\* open, and makes one probe more than PollRetries.
launch_and_poll_unbounded(s, o) ==
    LET cl == Append(o.calls, "Popen")
    IN  {[o EXCEPT !.reachable = TRUE,
                   !.calls = cl \o Repeat(<<"is_service_open", "sleep">>, k)
                                \o <<"is_service_open">>,
                   !.result = "started"] : k \in 1..PollRetries}
        \cup {[o EXCEPT !.calls = cl \o Repeat(<<"is_service_open", "sleep">>,
                                               PollRetries + 1),
                        !.result = "not_running"]}

\* The launch and the polling, after the calls cl: reachable at the k-th
\* probe, or at none of the PollRetries.
launch_and_poll(s, o) ==
    LET cl == Append(o.calls, "Popen")
    IN  {[o EXCEPT !.reachable = TRUE,
                   !.calls = cl \o Repeat(<<"is_service_open", "sleep">>, k - 1)
                                \o <<"is_service_open">>,
                   !.result = "started"] : k \in 1..PollRetries}
        \cup {[o EXCEPT !.calls = cl \o Repeat(<<"is_service_open", "sleep">>,
                                               PollRetries),
                        !.result = "not_running"]}

\* A faulty start_service: it does not look at the port first.
start_service_without_probe(s) ==
    LET probe(o) == [o EXCEPT !.calls = <<"is_service_open">> \o @]
        inst == {probe(o) : o \in installer_install(s)}
        conf == UNION {apply_configs(s, o) : o \in {i \in inst : i.result = "ok"}}
    IN  {o \in inst : o.result = "raised"}
        \cup {o \in conf : o.result = "raised"}
        \cup UNION {launch_and_poll(s, o) : o \in {c \in conf : c.result = "ok"}}

\* Service.start_service
start_service(s) ==
    IF reachable[s]
    THEN {Outcome(installed[s], install_dir[s], TRUE, <<"is_service_open">>,
                  "already_running")}
    ELSE LET probe(o) == [o EXCEPT !.calls = <<"is_service_open">> \o @]
             inst == {probe(o) : o \in installer_install(s)}
             conf == UNION {apply_configs(s, o) : o \in {i \in inst : i.result = "ok"}}
         IN  {o \in inst : o.result = "raised"}
             \cup {o \in conf : o.result = "raised"}
             \cup UNION {launch_and_poll(s, o) : o \in {c \in conf : c.result = "ok"}}

\* What proc.connections and proc.send_signal do for one process of the
\* table: "other" has no connection on the port, "denied" raises when its
\* connections are read, "listener" is bound to the port and takes the
\* signal, "gone" is bound to the port and raises when it is signalled.
ProcessKinds == {"other", "denied", "listener", "gone"}

\* What process_iter can yield.
ProcessTables == UNION {[1..m -> ProcessKinds] : m \in 0..MaxProcs}

\* The body of "for proc in process_iter()", for one process.
process_calls(p) ==
    CASE p = "other"    -> <<"connections">>
      [] p = "denied"   -> <<"connections_raised">>
      [] p = "listener" -> <<"connections", "send_signal">>
      [] p = "gone"     -> <<"connections", "send_signal_raised">>

ProcessFails(p) == p \in {"denied", "gone"}

\* A faulty loop over the processes, without the try/except: the first
\* failure leaves the loop and is raised to the caller.
RECURSIVE signal_processes_propagates(_, _)
signal_processes_propagates(procs, i) ==
    IF i > Len(procs)
    THEN [calls |-> <<>>, raised |-> FALSE]
    ELSE IF ProcessFails(procs[i])
    THEN [calls |-> process_calls(procs[i]), raised |-> TRUE]
    ELSE LET r == signal_processes_propagates(procs, i + 1)
         IN  [r EXCEPT !.calls = process_calls(procs[i]) \o @]

\* for proc in process_iter(): try: ... except: pass, from the i-th
\* process on: the calls made, and whether an exception left the loop.
RECURSIVE signal_processes(_, _)
signal_processes(procs, i) ==
    IF i > Len(procs)
    THEN [calls |-> <<>>, raised |-> FALSE]
    ELSE LET r == signal_processes(procs, i + 1)
         IN  [r EXCEPT !.calls = process_calls(procs[i]) \o @]

\* stop_service on a service that is reachable: the walk of the process
\* table.  A process that took the signal may or may not have closed the
\* port when the call returns.
stop_reachable(s) ==
    UNION {LET r == signal_processes(procs, 1)
               cl == <<"is_service_open", "process_iter">> \o r.calls
               sent == \E i \in 1..Len(cl) : cl[i] = "send_signal"
               res == IF r.raised THEN "raised"
                      ELSE IF sent THEN "signalled" ELSE "no_signal"
           IN  {[Outcome(installed[s], install_dir[s], reach, cl, res)
                     EXCEPT !.procs = procs] :
                  reach \in IF sent THEN BOOLEAN ELSE {TRUE}} :
           procs \in ProcessTables}

\* A faulty stop_service: it does not look at the port first.
stop_service_without_probe(s) == stop_reachable(s)

\* Service.stop_service
stop_service(s) ==
    IF ~reachable[s]
    THEN {Outcome(installed[s], install_dir[s], FALSE, <<"is_service_open">>,
                  "not_running")}
    ELSE stop_reachable(s)

\* Service.uninstall: stop_service, then installer.uninstall.
uninstall(s) ==
    UNION {IF o.result = "raised"
           THEN {o}
           ELSE {[u EXCEPT !.procs = o.procs] :
                   u \in installer_uninstall(s, o.reachable, o.calls)} :
           o \in stop_service(s)}

(* ------------------------------- main --------------------------------- *)

AllOps == {"install_all_services", "start_all_services",
           "stop_all_services", "uninstall_all_services"}

SpecificOps == {"install_specific_services", "start_specific_services",
                "stop_specific_services", "uninstall_specific_services"}

NoDepsOps == {"install_specific_services_no_deps",
              "start_specific_services_no_deps",
              "stop_specific_services_no_deps",
              "uninstall_specific_services_no_deps"}

InstallOps == {"install_all_services", "install_specific_services",
               "install_specific_services_no_deps"}

StartOps == {"start_all_services", "start_specific_services",
             "start_specific_services_no_deps"}

StopOps == {"stop_all_services", "stop_specific_services",
            "stop_specific_services_no_deps"}

UninstallOps == {"uninstall_all_services", "uninstall_specific_services",
                 "uninstall_specific_services_no_deps"}

AscendingOps == {"install_all_services", "start_all_services",
                 "install_specific_services", "start_specific_services"}

DescendingOps == {"stop_all_services", "uninstall_all_services",
                  "stop_specific_services", "uninstall_specific_services"}

Flags == {"--install-all", "--install", "--start-all", "--start",
          "--stop-all", "--stop", "--uninstall-all", "--uninstall", "none"}

\* A faulty dispatch: without a flag it installs all services.
dispatch_default_install_all(flag) ==
    CASE flag = "--install-all"   -> "install_all_services"
      [] flag = "--install"       -> "install_specific_services"
      [] flag = "--start-all"     -> "start_all_services"
      [] flag = "--start"         -> "start_specific_services"
      [] flag = "--stop-all"      -> "stop_all_services"
      [] flag = "--stop"          -> "stop_specific_services"
      [] flag = "--uninstall-all" -> "uninstall_all_services"
      [] flag = "--uninstall"     -> "uninstall_specific_services"
      [] flag = "none"            -> "install_all_services"

\* The if/elif chain of main, and the default of no flag.
dispatch(flag) ==
    CASE flag = "--install-all"   -> "install_all_services"
      [] flag = "--install"       -> "install_specific_services"
      [] flag = "--start-all"     -> "start_all_services"
      [] flag = "--start"         -> "start_specific_services"
      [] flag = "--stop-all"      -> "stop_all_services"
      [] flag = "--stop"          -> "stop_specific_services"
      [] flag = "--uninstall-all" -> "uninstall_all_services"
      [] flag = "--uninstall"     -> "uninstall_specific_services"
      [] flag = "none"            -> "start_all_services"

Requests == RequestsOf(Names \cup {Ghost}, MaxRequest)

\* main: the arguments select the operation.  "api" is a caller of the
\* library, who constructs the ServiceManager and then calls one of the
\* *_no_deps operations, which main does not offer.
ParseArgs(flag) ==
    /\ pc = "start"
    /\ args' = flag
    /\ op' = IF flag = "api" THEN "none" ELSE dispatch(flag)
    /\ pc' = "construct"
    /\ UNCHANGED <<config_vars, system_vars, service_names, err, cycle_path,
                   order, gi, si, trace, calls, process_table>>

\* ServiceManager(yaml_file_path): load, then _validate_dependencies.
Construct ==
    /\ pc = "construct"
    /\ LET v == validate_dependencies
       IN  /\ err' = v.err
           /\ cycle_path' = v.path
           /\ pc' = IF v.err = "none" THEN "dispatch" ELSE "failed"
    /\ UNCHANGED <<config_vars, system_vars, args, op, service_names, order,
                   gi, si, trace, calls, process_table>>

\* _log_operation_order reads order[0]: an empty order raises IndexError.
Planned(ord) ==
    /\ order' = ord
    /\ gi' = 1
    /\ si' = 1
    /\ pc' = IF ord = <<>> THEN "failed" ELSE "run"
    /\ err' = IF ord = <<>> THEN "index_error" ELSE "none"

\* The first lines of the four *_all_services operations.
PlanAll ==
    /\ pc = "dispatch"
    /\ op \in AllOps
    /\ \E ord \in IF op \in AscendingOps THEN {get_start_order} ELSE get_stop_order :
          Planned(ord)
    /\ UNCHANGED <<config_vars, system_vars, args, op, service_names,
                   cycle_path, trace, calls, process_table>>

\* args.<flag>.split(","), then the first lines of the four
\* *_specific_services operations: get_service of every requested name,
\* then the subset orderer.
PlanSpecific(names) ==
    /\ pc = "dispatch"
    /\ op \in SpecificOps
    /\ service_names' = names
    /\ LET specific == specific_services(names)
       IN  IF ~specific.found
           THEN /\ pc' = "failed"
                /\ err' = "not_found"
                /\ UNCHANGED <<order, gi, si>>
           ELSE \E ord \in IF op \in AscendingOps
                           THEN get_start_order_for_specific(specific.list)
                           ELSE get_stop_order_for_specific(specific.list) :
                   Planned(ord)
    /\ UNCHANGED <<config_vars, system_vars, args, op, cycle_path, trace,
                   calls, process_table>>

\* The *_no_deps operations compute no order: they walk the request.
PlanNoDeps(o, names) ==
    /\ pc = "dispatch"
    /\ args = "api"
    /\ op' = o
    /\ service_names' = names
    /\ order' = <<names>>
    /\ gi' = 1
    /\ si' = 1
    /\ pc' = "run"
    /\ UNCHANGED <<config_vars, system_vars, args, err, cycle_path, trace,
                   calls, process_table>>

\* The service the run is at.
current == order[gi][si]

\* Whether the post install command of s has completed since s last became
\* installed, after a handler with outcome o: run_command_with_logs
\* returned in this handler, or it had before and s stayed installed.
hook_after(s, o) ==
    LET completed == \E i \in 1..Len(o.calls) :
                         /\ o.calls[i] = "post_install"
                         /\ ~(i = Len(o.calls) /\ o.result = "raised")
    IN  IF ~o.installed
        THEN FALSE
        ELSE IF completed
        THEN TRUE
        ELSE installed[s] /\ hook_done[s]

\* The handler of the operation, on one service.
handler(o, s) ==
    CASE o \in InstallOps   -> installer_install(s)
      [] o \in StartOps     -> start_service(s)
      [] o \in StopOps      -> stop_service(s)
      [] o \in UninstallOps -> uninstall(s)

\* A faulty advance: it leaves the group after one member.
advance_next_group ==
    IF gi < Len(order)
    THEN /\ gi' = gi + 1
         /\ si' = 1
         /\ pc' = "run"
    ELSE /\ UNCHANGED <<gi, si>>
         /\ pc' = "done"

\* for group in order: for service_name in group: the next member, the
\* next group, or the end.
advance ==
    IF si < Len(order[gi])
    THEN /\ si' = si + 1
         /\ UNCHANGED gi
         /\ pc' = "run"
    ELSE IF gi < Len(order)
    THEN /\ gi' = gi + 1
         /\ si' = 1
         /\ pc' = "run"
    ELSE /\ UNCHANGED <<gi, si>>
         /\ pc' = "done"

\* A faulty Step: it catches the exception of the handler and goes on.
Step_goes_on(ops) ==
    /\ pc = "run"
    /\ op \in ops
    /\ get_service_found(current)
    /\ \E o \in handler(op, current) :
        /\ installed' = [installed EXCEPT ![current] = o.installed]
        /\ install_dir' = [install_dir EXCEPT ![current] = o.install_dir]
        /\ reachable' = [reachable EXCEPT ![current] = o.reachable]
        /\ hook_done' = [hook_done EXCEPT ![current] = hook_after(current, o)]
        /\ calls' = o.calls
        /\ process_table' = o.procs
        /\ trace' = Append(trace, [service |-> current, result |-> o.result])
        /\ advance
        /\ UNCHANGED err
    /\ UNCHANGED <<config_vars, args, op, service_names, cycle_path, order>>

\* A faulty Step: when the handler raises, it undoes the run so far and
\* stops the services the handlers before it were invoked on.
Step_rolls_back(ops) ==
    /\ pc = "run"
    /\ op \in ops
    /\ get_service_found(current)
    /\ \E o \in handler(op, current) :
        /\ installed' = [installed EXCEPT ![current] = o.installed]
        /\ install_dir' = [install_dir EXCEPT ![current] = o.install_dir]
        /\ reachable' =
               IF o.result = "raised"
               THEN [t \in DOMAIN reachable |->
                        IF t = current THEN o.reachable
                        ELSE IF \E k \in 1..Len(trace) : trace[k].service = t
                        THEN FALSE
                        ELSE reachable[t]]
               ELSE [reachable EXCEPT ![current] = o.reachable]
        /\ hook_done' = [hook_done EXCEPT ![current] = hook_after(current, o)]
        /\ calls' = o.calls
        /\ process_table' = o.procs
        /\ trace' = Append(trace, [service |-> current, result |-> o.result])
        /\ IF o.result = "raised"
           THEN /\ pc' = "failed"
                /\ err' = "collaborator"
                /\ UNCHANGED <<gi, si>>
           ELSE /\ advance
                /\ UNCHANGED err
    /\ UNCHANGED <<config_vars, args, op, service_names, cycle_path, order>>

\* One iteration of the inner loop: get_service and the handler.  An
\* exception of the handler leaves the loops and ends the invocation.
Step(ops) ==
    /\ pc = "run"
    /\ op \in ops
    /\ get_service_found(current)
    /\ \E o \in handler(op, current) :
        /\ installed' = [installed EXCEPT ![current] = o.installed]
        /\ install_dir' = [install_dir EXCEPT ![current] = o.install_dir]
        /\ reachable' = [reachable EXCEPT ![current] = o.reachable]
        /\ hook_done' = [hook_done EXCEPT ![current] = hook_after(current, o)]
        /\ calls' = o.calls
        /\ process_table' = o.procs
        /\ trace' = Append(trace, [service |-> current, result |-> o.result])
        /\ IF o.result = "raised"
           THEN /\ pc' = "failed"
                /\ err' = "collaborator"
                /\ UNCHANGED <<gi, si>>
           ELSE /\ advance
                /\ UNCHANGED err
    /\ UNCHANGED <<config_vars, args, op, service_names, cycle_path, order>>

InstallStep == Step(InstallOps)

StartStep == Step(StartOps)

StopStep == Step(StopOps)

UninstallStep == Step(UninstallOps)

\* get_service raises inside the loop of a *_no_deps operation.
NotFoundStep ==
    /\ pc = "run"
    /\ ~get_service_found(current)
    /\ pc' = "failed"
    /\ err' = "not_found"
    /\ calls' = <<>>
    /\ process_table' = <<>>
    /\ UNCHANGED <<config_vars, system_vars, args, op, service_names,
                   cycle_path, order, gi, si, trace>>

(* --------------------------- specifications --------------------------- *)

\* The descriptor lists of n services.
ConfigInit(n) ==
    /\ services = SubSeq(NamePool, 1, n)
    /\ depends_on \in [Range(SubSeq(NamePool, 1, n)) ->
                        ListsOf(Range(SubSeq(NamePool, 1, n)) \cup {Ghost}, MaxDeps)]

\* Nothing parsed, constructed, planned or run yet.
RunInit ==
    /\ pc = "start"
    /\ args = "none"
    /\ op = "none"
    /\ service_names = <<>>
    /\ err = "none"
    /\ cycle_path = <<>>
    /\ order = <<>>
    /\ gi = 0
    /\ si = 0
    /\ trace = <<>>
    /\ calls = <<>>
    /\ process_table = <<>>

\* The installer type of the i-th descriptor of the orchestration runs.
TypeAt(i) ==
    CASE i % 3 = 1 -> "binary"
      [] i % 3 = 2 -> "brew"
      [] i % 3 = 0 -> "local_bin"

IndexOf(q, x) == CHOOSE i \in 1..Len(q) : q[i] = x

\* The orchestration runs: any descriptor list within the bounds, on a
\* machine where nothing is installed or running yet.
Init ==
    /\ \E n \in 0..MaxServices : ConfigInit(n)
    /\ kind = [s \in Names |-> TypeAt(IndexOf(services, s))]
    /\ post_install_cmd = [s \in Names |-> kind[s] = "binary"]
    /\ configs = [s \in Names |-> MaxConfigs]
    /\ installed = [s \in Names |-> FALSE]
    /\ install_dir = [s \in Names |-> FALSE]
    /\ reachable = [s \in Names |-> FALSE]
    /\ hook_done = [s \in Names |-> FALSE]
    /\ RunInit

Next ==
    \/ \E f \in Flags \cup {"api"} : ParseArgs(f)
    \/ Construct
    \/ PlanAll
    \/ \E names \in Requests : PlanSpecific(names)
    \/ \E o \in NoDepsOps : \E names \in Requests : PlanNoDeps(o, names)
    \/ InstallStep
    \/ StartStep
    \/ StopStep
    \/ UninstallStep
    \/ NotFoundStep

Spec == Init /\ [][Next]_vars

\* A machine in any state: is_installed holds only when the symlinks point
\* into an install directory that exists.
AnyMachine ==
    /\ installed \in [Names -> BOOLEAN]
    /\ install_dir \in [Names -> BOOLEAN]
    /\ reachable \in [Names -> BOOLEAN]
    /\ hook_done \in [Names -> BOOLEAN]
    /\ \A s \in Names : installed[s] => install_dir[s]
    /\ \A s \in Names : hook_done[s] => (installed[s] /\ post_install_cmd[s])

\* One service, of any installer type, with or without a post install
\* command (BinInstaller takes none) and with any number of config items.
OneServiceInit ==
    /\ services = SubSeq(NamePool, 1, 1)
    /\ depends_on = [s \in Names |-> <<>>]
    /\ kind \in [Names -> InstallerTypes]
    /\ post_install_cmd \in [Names -> BOOLEAN]
    /\ \A s \in Names : kind[s] = "local_bin" => ~post_install_cmd[s]
    /\ configs \in [Names -> 0..MaxConfigs]

\* A descriptor list of several services that loads.
FleetInit ==
    /\ \E n \in 2..MaxFleet : ConfigInit(n)
    /\ validate_dependencies.err = "none"
    /\ kind = [s \in Names |-> TypeAt(IndexOf(services, s))]
    /\ post_install_cmd = [s \in Names |-> kind[s] = "binary"]
    /\ configs = [s \in Names |-> MaxConfigs]

\* The invocations on a machine that earlier invocations, or anything
\* else, left in any state.
MachineInit ==
    /\ OneServiceInit \/ FleetInit
    /\ AnyMachine
    /\ RunInit

MachineSpec == MachineInit /\ [][Next]_vars

\* Example A of the specification: db and cache depend on nothing, api on
\* db and cache, worker on api; nothing installed or running.
ExampleAInit ==
    /\ services = <<"db", "cache", "api", "worker">>
    /\ depends_on = [s \in Names |->
                        CASE s = "api"    -> <<"db", "cache">>
                          [] s = "worker" -> <<"api">>
                          [] OTHER        -> <<>>]
    /\ kind = [s \in Names |-> TypeAt(IndexOf(services, s))]
    /\ post_install_cmd = [s \in Names |-> kind[s] = "binary"]
    /\ configs = [s \in Names |-> MaxConfigs]
    /\ installed = [s \in Names |-> FALSE]
    /\ install_dir = [s \in Names |-> FALSE]
    /\ reachable = [s \in Names |-> FALSE]
    /\ hook_done = [s \in Names |-> FALSE]
    /\ RunInit

ExampleASpec == ExampleAInit /\ [][Next]_vars

\* The command is run again, on the machine as the invocation before left
\* it: a new process, a new ServiceManager.
Again ==
    /\ pc \in {"done", "failed"}
    /\ pc' = "start"
    /\ args' = "none"
    /\ op' = "none"
    /\ service_names' = <<>>
    /\ err' = "none"
    /\ cycle_path' = <<>>
    /\ order' = <<>>
    /\ gi' = 0
    /\ si' = 0
    /\ trace' = <<>>
    /\ calls' = <<>>
    /\ process_table' = <<>>
    /\ UNCHANGED <<config_vars, system_vars>>

\* One service of any installer type, on a machine where nothing is
\* installed or running yet.
RepeatInit ==
    /\ OneServiceInit
    /\ installed = [s \in Names |-> FALSE]
    /\ install_dir = [s \in Names |-> FALSE]
    /\ reachable = [s \in Names |-> FALSE]
    /\ hook_done = [s \in Names |-> FALSE]
    /\ RunInit

RepeatNext ==
    \/ Next
    \/ Again

\* Any number of invocations, one after the other, on one machine.
RepeatSpec == RepeatInit /\ [][RepeatNext]_vars

(* ------------------------------ the claims ---------------------------- *)

\* The dependencies a service declares.
Deps(s) == Range(depends_on[s])

\* The groups of ord that hold s.
GroupsOf(ord, s) == {i \in 1..Len(ord) : InSeq(s, ord[i])}

\* The services of ord.
Members(ord) == UNION {Range(ord[i]) : i \in 1..Len(ord)}

\* s is in ord, and in a later group than every occurrence of d.
After(ord, s, d) ==
    /\ GroupsOf(ord, s) # {}
    /\ GroupsOf(ord, d) # {}
    /\ \A i \in GroupsOf(ord, s) : \A j \in GroupsOf(ord, d) : j < i

\* The least set that holds S and the dependencies of its members.
RECURSIVE DependencyClosure(_)
DependencyClosure(S) ==
    LET T == S \cup UNION {Deps(s) \cap Names : s \in S \cap Names}
    IN  IF T = S THEN S ELSE DependencyClosure(T)

\* The least set that holds S and the dependents of its members.
RECURSIVE DependentClosure(_)
DependentClosure(S) ==
    LET T == S \cup {t \in Names : Deps(t) \cap S # {}}
    IN  IF T = S THEN S ELSE DependentClosure(T)

\* Some service is among its own direct or indirect dependencies.
HasCycle == \E s \in Names : s \in DependencyClosure(Deps(s) \cap Names)

\* The construction is over (it succeeded or it raised).
Constructed == pc \notin {"start", "construct"}

\* An orderer has returned the order of the operation.
OrderComputed == gi > 0 /\ op \in AllOps \cup SpecificOps

\* C1: in the order of _get_start_order (install-all, start-all), every
\* service is in a group strictly after the group of each of its
\* dependencies.
C1_StartOrderAfterDependencies ==
    (OrderComputed /\ op \in {"install_all_services", "start_all_services"})
    => \A s \in Names : \A d \in Deps(s) : After(order, s, d)

\* C1, its case: the full ascending order of three services on a chain.
C1_Witness ==
    /\ OrderComputed
    /\ op = "install_all_services"
    /\ \E s, d, e \in Names : d \in Deps(s) /\ e \in Deps(d)

\* C2: in every order of the four orderers, no two members of a group are
\* connected by a dependency edge.
C2_GroupsAreAntichains ==
    OrderComputed
    => \A i \in 1..Len(order) : \A a, b \in Range(order[i]) : a \notin Deps(b)

\* C2, its case: a descending order with a group of two, in a set that has
\* a dependency edge.
C2_Witness ==
    /\ OrderComputed
    /\ op \in DescendingOps
    /\ \E i \in 1..Len(order) : Len(order[i]) >= 2
    /\ \E s \in Names : Deps(s) # {}

\* C3: in the order of _get_stop_order (stop-all, uninstall-all), every
\* service is in a group strictly before the group of each service it
\* depends on.
C3_StopOrderBeforeDependencies ==
    (OrderComputed /\ op \in {"stop_all_services", "uninstall_all_services"})
    => \A s \in Names : \A d \in Deps(s) : After(order, d, s)

\* C3, its case: the full descending order of three services on a chain.
C3_Witness ==
    /\ OrderComputed
    /\ op = "stop_all_services"
    /\ \E s, d, e \in Names : d \in Deps(s) /\ e \in Deps(d)

\* Some service declares a dependency that is the name of no service.
UnknownDependency == \E s \in Names : ~(Deps(s) \subseteq Names)

\* No handler was invoked and the machine is as the invocation found it.
NothingTouched ==
    /\ trace = <<>>
    /\ calls = <<>>
    /\ \A s \in Names : ~installed[s] /\ ~install_dir[s] /\ ~reachable[s]

\* C4, as claimed: the construction of a set with a cycle always raises the
\* circular dependency error.
C4_CycleRaisesCircular ==
    (Constructed /\ HasCycle)
    => (pc = "failed" /\ err = "circular" /\ gi = 0 /\ order = <<>>)

\* C4, amended: the construction of a set with a cycle always fails and no
\* order is computed; the error is the circular dependency error unless
\* the set also declares an unknown dependency, which is reported instead.
C4_CycleFailsConstruction ==
    (Constructed /\ HasCycle)
    => /\ pc = "failed"
       /\ err = IF UnknownDependency THEN "invalid_dependency" ELSE "circular"
       /\ gi = 0
       /\ order = <<>>

\* C4, its case: a cycle that the first service of the list is not on and
\* cannot reach was reported.
C4_Witness ==
    /\ pc = "failed"
    /\ err = "circular"
    /\ HasCycle
    /\ \A s \in DependencyClosure({services[1]}) :
          s \notin DependencyClosure(Deps(s) \cap Names)

\* C5: with an unknown dependency name, or a cycle, the construction fails
\* and the run makes no install, start, stop or uninstall call.
C5_ConfigErrorsAbortBeforeAnyAction ==
    (Constructed /\ (UnknownDependency \/ HasCycle))
    => /\ pc = "failed"
       /\ err \in {"invalid_dependency", "circular"}
       /\ UnknownDependency => err = "invalid_dependency"
       /\ gi = 0
       /\ NothingTouched

\* C5, its case: install-all was asked of a set with an unknown dependency.
C5_Witness ==
    /\ pc = "failed"
    /\ args = "--install-all"
    /\ UnknownDependency
    /\ ~HasCycle

\* C6: a *_specific_services operation asked for a name that is no service
\* fails with no collaborator invoked for any service.
C6_UnknownNameFailsBeforeAnyCall ==
    (/\ op \in SpecificOps
     /\ pc \in {"run", "done", "failed"}
     /\ err \notin {"invalid_dependency", "circular"}
     /\ ~(Range(service_names) \subseteq Names))
    => /\ pc = "failed"
       /\ err = "not_found"
       /\ gi = 0
       /\ NothingTouched

\* C6, its case: the unknown name comes after a valid one in the request.
C6_Witness ==
    /\ pc = "failed"
    /\ op = "install_specific_services"
    /\ Len(service_names) = 2
    /\ service_names[1] \in Names
    /\ service_names[2] \notin Names

\* C7: the subset ascending order holds exactly the requested services and
\* their direct and indirect dependencies, each strictly after each of its
\* dependencies.
C7_SpecificStartOrderIsDependencyClosure ==
    (OrderComputed /\ op \in {"install_specific_services", "start_specific_services"})
    => /\ Members(order) = DependencyClosure(Range(service_names))
       /\ \A s \in Members(order) : \A d \in Deps(s) : After(order, s, d)

\* C7, its case: one requested service with an indirect dependency.
C7_Witness ==
    /\ OrderComputed
    /\ op = "start_specific_services"
    /\ Len(service_names) = 1
    /\ \E d, e \in Names :
          /\ d \in Deps(service_names[1])
          /\ e \in Deps(d)
          /\ e \notin Deps(service_names[1])

\* C8: the subset descending order holds exactly the requested services
\* and their direct and indirect dependents, each dependent strictly
\* before each service it depends on.
C8_SpecificStopOrderIsDependentClosure ==
    (OrderComputed /\ op \in {"stop_specific_services", "uninstall_specific_services"})
    => /\ Members(order) = DependentClosure(Range(service_names))
       /\ \A s \in Members(order) :
             \A d \in Deps(s) \cap Members(order) : After(order, d, s)

\* C8, its case: stop of one service that has a dependent with a dependent
\* of its own gives three groups, the requested service last.
C8_Witness ==
    /\ OrderComputed
    /\ op = "stop_specific_services"
    /\ Len(service_names) = 1
    /\ Len(order) = 3
    /\ order[3] = <<service_names[1]>>
    /\ order[2][1] \in dependents_map(service_names[1])
    /\ order[1][1] \in dependents_map(order[2][1])

\* The members of the groups of ord, one after the other.
RECURSIVE Flatten(_)
Flatten(ord) == IF ord = <<>> THEN <<>> ELSE Head(ord) \o Flatten(Tail(ord))

\* C9: install on a service that is installed makes no mutating call and
\* returns, whatever the installer.
C9_InstallIsIdempotent ==
    [][(/\ pc = "run"
        /\ op \in InstallOps
        /\ get_service_found(current)
        /\ installed[current]
        /\ Len(trace') = Len(trace) + 1)
       => (/\ trace'[Len(trace')].result = "ok"
           /\ \A i \in 1..Len(calls') : calls'[i] \notin MutatingCalls)]_vars

\* C10: in install-all and install on names, the installs are invoked in
\* the order, each at most once; a failing install is the last one invoked
\* and ends the invocation with its error; the services installed before
\* it stay installed and nothing is uninstalled.
C10_InstallFailureAborts ==
    (gi > 0 /\ op \in {"install_all_services", "install_specific_services"})
    => /\ Len(trace) <= Len(Flatten(order))
       /\ \A k \in 1..Len(trace) : trace[k].service = Flatten(order)[k]
       /\ \A j, k \in 1..Len(trace) : trace[j].service = trace[k].service => j = k
       /\ \A k \in 1..Len(trace) :
             trace[k].result = "raised"
             => (k = Len(trace) /\ pc = "failed" /\ err = "collaborator")
       /\ \A k \in 1..Len(trace) :
             trace[k].result = "ok" => installed[trace[k].service]
       /\ \A i \in 1..Len(calls) :
             calls[i] \notin {"remove_symlink", "rmtree", "brew_remove"}

\* C10, its case: the second of three installs failed after the first had
\* succeeded, and the third was never invoked.
C10_Witness ==
    /\ pc = "failed"
    /\ err = "collaborator"
    /\ op = "install_all_services"
    /\ Len(Flatten(order)) = 3
    /\ Len(trace) = 2
    /\ trace[1].result = "ok"
    /\ trace[2].result = "raised"
    /\ installed[trace[1].service]
    /\ ~installed[Flatten(order)[3]]

\* A handler is invoked on the current service in this step.
HandlerStep(ops) ==
    /\ pc = "run"
    /\ op \in ops
    /\ get_service_found(current)
    /\ Len(trace') = Len(trace) + 1

\* The result of the last handler invoked.
LastResult == trace[Len(trace)].result

\* The handler just invoked returned and the loops went on: the run is at
\* the next member of the order, or over when there is none.
RunGoesOn ==
    /\ err = "none"
    /\ IF Len(trace) = Len(Flatten(order))
       THEN pc = "done"
       ELSE pc = "run" /\ current = Flatten(order)[Len(trace) + 1]

\* C11: start on a service whose port is reachable only probes the port:
\* no installer call, no config item applied, nothing launched, the machine
\* unchanged, and the call returns.
C11_StartOnReachableIsNoOp ==
    [][(HandlerStep(StartOps) /\ reachable[current])
       => (/\ calls' = <<"is_service_open">>
           /\ UNCHANGED system_vars
           /\ trace'[Len(trace')].result = "already_running"
           /\ pc' \in {"run", "done"}
           /\ err' = "none")]_vars

\* C11, its case: start returned at once on a reachable service that is
\* not installed and has a config item.
C11_Witness ==
    /\ op \in StartOps
    /\ trace # <<>>
    /\ LastResult = "already_running"
    /\ calls = <<"is_service_open">>
    /\ ~installed[trace[Len(trace)].service]
    /\ configs[trace[Len(trace)].service] > 0

\* The last handler launched the service and used up its probes: the last
\* thing it did was to sleep after the last failed probe.
PollExhausted == calls # <<>> /\ calls[Len(calls)] = "sleep"

\* C12: when the probes after the launch are used up, start_service
\* returns (result not_running, no error) and start-all and start on names
\* go on with the next service of the order; every start that ended that
\* way earlier in the run was followed by the next one.
C12_PollExhaustionDoesNotFail ==
    (gi > 0 /\ op \in {"start_all_services", "start_specific_services"})
    => /\ (trace # <<>> /\ PollExhausted)
          => (LastResult = "not_running" /\ RunGoesOn)
       /\ \A k \in 1..Len(trace) :
             trace[k].result = "not_running"
             => (k < Len(trace) \/ RunGoesOn)
       /\ pc = "done" => Len(trace) = Len(Flatten(order))

\* C12, its case: the first service of start-all never became reachable,
\* and the services of the two later groups were started all the same.
C12_Witness ==
    /\ op = "start_all_services"
    /\ pc = "done"
    /\ Len(order) = 3
    /\ Len(trace) = 3
    /\ trace[1].result = "not_running"
    /\ trace[2].result = "started"
    /\ trace[3].result = "started"

\* C13: stop on a service that is not reachable only probes the port: the
\* process table is not read, no signal is sent, the machine is unchanged,
\* and the call returns.
C13_StopOnUnreachableIsNoOp ==
    [][(HandlerStep(StopOps) /\ ~reachable[current])
       => (/\ calls' = <<"is_service_open">>
           /\ process_table' = <<>>
           /\ UNCHANGED system_vars
           /\ trace'[Len(trace')].result = "not_running"
           /\ pc' \in {"run", "done"}
           /\ err' = "none")]_vars

\* C13, its case: stop-all found an installed service not running, after
\* it had signalled another one.
C13_Witness ==
    /\ op = "stop_all_services"
    /\ Len(trace) = 2
    /\ trace[1].result = "signalled"
    /\ trace[2].result = "not_running"
    /\ installed[trace[2].service]
    /\ calls = <<"is_service_open">>

\* The calls of the last handler that read the connections of a process.
Examined ==
    {i \in 1..Len(calls) : calls[i] \in {"connections", "connections_raised"}}

\* C14: when reading or signalling a process fails during stop of a
\* reachable service, stop_service still reads every process of the table,
\* returns, and the stop run goes on with the next service.
C14_ProcessFailuresAreSwallowed ==
    (/\ gi > 0
     /\ op \in StopOps
     /\ trace # <<>>
     /\ \E i \in 1..Len(process_table) : ProcessFails(process_table[i]))
    => /\ Cardinality(Examined) = Len(process_table)
       /\ LastResult \in {"signalled", "no_signal"}
       /\ RunGoesOn

\* C14, its case: the first process of the table could not be read, the
\* second was signalled, and stop-all went on to the second service.
C14_Witness ==
    /\ op = "stop_all_services"
    /\ pc = "run"
    /\ Len(Flatten(order)) = 2
    /\ Len(trace) = 1
    /\ process_table = <<"denied", "listener">>
    /\ calls = <<"is_service_open", "process_iter", "connections_raised",
                 "connections", "send_signal">>

\* The calls of stop_service, and the calls that remove what install made.
StopCalls ==
    {"is_service_open", "process_iter", "connections", "connections_raised",
     "send_signal", "send_signal_raised"}

RemoveCalls == {"brew_remove", "remove_symlink", "rmtree"}

\* C15: uninstall is accepted in every state of the service: it stops the
\* service first (the port is probed before anything is removed), then
\* removes the symlinks and the install directory, leaving the service not
\* installed; on a service that is not installed, has no install directory
\* and is not running, it returns without an error and changes nothing.
C15_UninstallFromAnyState ==
    [][HandlerStep(UninstallOps)
       => (/\ calls'[1] = "is_service_open"
           /\ \A i, j \in 1..Len(calls') :
                 (calls'[i] \in StopCalls /\ calls'[j] \in RemoveCalls) => i < j
           /\ \A i \in 1..Len(calls') : calls'[i] \in StopCalls \cup RemoveCalls
           /\ (installed[current] <=>
                 \E i \in 1..Len(calls') : calls'[i] = "remove_symlink")
           /\ (install_dir[current] <=>
                 \E i \in 1..Len(calls') : calls'[i] = "rmtree")
           /\ ~installed'[current]
           /\ trace'[Len(trace')].result = "ok"
              => (~install_dir'[current] /\ pc' \in {"run", "done"})
           /\ (~installed[current] /\ ~install_dir[current] /\ ~reachable[current])
              => (/\ trace'[Len(trace')].result = "ok"
                  /\ UNCHANGED system_vars
                  /\ \A i \in 1..Len(calls') :
                        calls'[i] \in {"is_service_open", "brew_remove"}))]_vars

\* C15, its case: one request uninstalled the same service twice, and the
\* second uninstall found nothing to stop or remove.
C15_Witness ==
    /\ op = "uninstall_specific_services_no_deps"
    /\ pc = "done"
    /\ Len(trace) = 2
    /\ trace[1].service = trace[2].service
    /\ trace[1].result = "ok"
    /\ trace[2].result = "ok"
    /\ ~installed[trace[2].service]
    /\ ~install_dir[trace[2].service]
    /\ ~reachable[trace[2].service]
    /\ calls = <<"is_service_open">>

\* C16: in every run over a computed order, when the handler of a member
\* of a group is invoked, the handler of every member of every earlier
\* group has been invoked before it and has returned; the members are
\* taken in the order of the groups.
C16_GroupsInOrder ==
    (OrderComputed /\ order # <<>>)
    => /\ \A l \in 1..Len(trace) :
             \A j \in GroupsOf(order, trace[l].service) :
                \A i \in 1..(j - 1) :
                   \A a \in Range(order[i]) :
                      \E k \in 1..(l - 1) :
                         trace[k].service = a /\ trace[k].result # "raised"
       /\ \A k, l \in 1..Len(trace) :
             k < l
             => \A i \in GroupsOf(order, trace[k].service) :
                   \A j \in GroupsOf(order, trace[l].service) : i <= j
       /\ pc = "run" => gi \in GroupsOf(order, current)

\* C16, its case: a run over a group of two followed by another group is
\* over, with the three handlers invoked.
C16_Witness ==
    /\ OrderComputed
    /\ pc = "done"
    /\ Len(order) = 2
    /\ Len(order[1]) = 2
    /\ Len(trace) = 3
    /\ trace[3].service = order[2][1]

\* C17: for Example A (db, cache, api on db and cache, worker on api) the
\* order of install-all and start-all is [[db, cache], [api], [worker]].
C17_ExampleAAscending ==
    (OrderComputed /\ op \in {"install_all_services", "start_all_services"})
    => order = <<<<"db", "cache">>, <<"api">>, <<"worker">>>>

\* C17, its case: start-all of Example A ran to its end.
C17_Witness ==
    /\ services = <<"db", "cache", "api", "worker">>
    /\ depends_on["api"] = <<"db", "cache">>
    /\ depends_on["worker"] = <<"api">>
    /\ op = "start_all_services"
    /\ pc = "done"
    /\ Len(trace) = 4

\* C18: for Example A the order of stop-all and uninstall-all is
\* [[worker], [api], [db, cache]].
C18_ExampleADescending ==
    (OrderComputed /\ op \in {"stop_all_services", "uninstall_all_services"})
    => order = <<<<"worker">>, <<"api">>, <<"db", "cache">>>>

\* The length of the longest chain of dependencies under s.
RECURSIVE Level(_)
Level(s) ==
    IF Deps(s) = {}
    THEN 0
    ELSE 1 + (CHOOSE m \in {Level(d) : d \in Deps(s)} :
                 \A d \in Deps(s) : Level(d) <= m)

\* The length of the longest chain of dependents over s.
RECURSIVE StopLevel(_)
StopLevel(s) ==
    IF dependents_map(s) = {}
    THEN 0
    ELSE 1 + (CHOOSE m \in {StopLevel(d) : d \in dependents_map(s)} :
                 \A d \in dependents_map(s) : StopLevel(d) <= m)

\* C19: the order of install-all and start-all is the leveling by longest
\* chain of dependencies: the group of a service (counted from 0) is 0
\* when it depends on nothing, else 1 + the greatest group of its
\* dependencies.
C19_AscendingIsLeveling ==
    (OrderComputed /\ op \in {"install_all_services", "start_all_services"})
    => \A s \in Names : GroupsOf(order, s) = {Level(s) + 1}

\* C20: the order of stop-all and uninstall-all is the leveling of the
\* reverse graph: the group of a service (counted from 0) is 0 when
\* nothing depends on it, else 1 + the greatest group of its dependents.
C20_DescendingIsReverseLeveling ==
    (OrderComputed /\ op \in {"stop_all_services", "uninstall_all_services"})
    => \A s \in Names : GroupsOf(order, s) = {StopLevel(s) + 1}

\* C21: within every group of the order of install-all and start-all the
\* members stand in the order of their first appearance in the descriptor
\* list, also when a later-listed member was reached first as a dependency
\* of an earlier-listed service.
C21_GroupMembersInListOrder ==
    (OrderComputed /\ op \in {"install_all_services", "start_all_services"})
    => \A g \in 1..Len(order) : \A a, b \in 1..Len(order[g]) :
           a < b => IndexOf(services, order[g][a]) < IndexOf(services, order[g][b])

\* The services that lie on a cycle of the dependency relation.
OnCycle == {s \in Names : s \in DependencyClosure(Deps(s) \cap Names)}

\* C22: when the construction fails on a cycle, the reported path starts
\* and ends with the same service, every consecutive pair of it is a
\* dependency edge, and no service outside the cycle is in it.
C22_CyclePathIsTheCycle ==
    (pc = "failed" /\ err = "circular")
    => /\ Len(cycle_path) >= 2
       /\ cycle_path[1] = cycle_path[Len(cycle_path)]
       /\ \A i \in 1..(Len(cycle_path) - 1) :
              cycle_path[i + 1] \in Deps(cycle_path[i])
       /\ Range(cycle_path) \subseteq OnCycle

\* The requests that name every member of S once.
ListingsOf(S) == {q \in ListsOf(S, Cardinality(S)) : Range(q) = S}

\* The orders the subset orderer of operation o can return for a request.
SpecificOrders(o, names) ==
    IF o \in AscendingOps
    THEN get_start_order_for_specific(names)
    ELSE get_stop_order_for_specific(names)

\* C23: the closure is idempotent and total, in both directions: a request
\* that names the services of the order computed for a request S gets these
\* same services, and a request that names every service gets every service.
C23_ClosureIdempotentAndTotal ==
    (OrderComputed /\ op \in SpecificOps)
    => /\ \A q \in ListingsOf(Members(order)) :
              \A ord \in SpecificOrders(op, q) : Members(ord) = Members(order)
       /\ \A q \in ListingsOf(Names) :
              \A ord \in SpecificOrders(op, q) : Members(ord) = Names

\* A stop or uninstall request whose order holds a service the request did
\* not name, and leaves a service of the list out.
C23_Witness ==
    /\ OrderComputed
    /\ op \in SpecificOps \cap DescendingOps
    /\ Range(service_names) \subseteq Members(order)
    /\ Range(service_names) # Members(order)
    /\ Members(order) # Names

\* The descriptor list restricted to the services of C.
RestrictedTo(C) == SelectSeq(services, LAMBDA s : s \in C)

\* The loop of _get_start_order over a list of services.
RECURSIVE start_loop_over(_, _, _)
start_loop_over(list, i, st) ==
    IF i > Len(list)
    THEN st
    ELSE start_loop_over(list, i + 1, start_add_service(list[i], st))

\* The loop of _get_stop_order over a list of services.
RECURSIVE stop_loop_over(_, _, _)
stop_loop_over(list, i, sts) ==
    IF i > Len(list)
    THEN sts
    ELSE stop_loop_over(list, i + 1,
                        UNION {stop_add_service(list[i], st) : st \in sts})

\* The order of _get_start_order on the descriptor list restricted to C, a
\* set that holds the dependencies of its members.
FullStartOrderOn(C) ==
    LET st == start_loop_over(RestrictedTo(C), 1, StartState0)
    IN  insert_no_deps(st.order, st.no_deps)

\* The orders of _get_stop_order on the descriptor list restricted to C, a
\* set that holds the dependents of its members.
FullStopOrdersOn(C) ==
    {st.order : st \in stop_loop_over(RestrictedTo(C), 1, {StopState0})}

\* The groups of ord as sets of services, in sequence.
GroupSets(ord) == [i \in 1..Len(ord) |-> Range(ord[i])]

\* C24: the order a subset orderer returns for a request has the groups, in
\* the same sequence, of the order the full-set orderer returns on the
\* descriptor list restricted to the closure of the request; a request that
\* names every service gets the groups of the --all operation.
C24_SubsetOrderIsRestrictedFullOrder ==
    (OrderComputed /\ op \in SpecificOps)
    => IF op \in AscendingOps
       THEN GroupSets(order) =
                GroupSets(FullStartOrderOn(
                    DependencyClosure(Range(service_names))))
       ELSE \E ord \in FullStopOrdersOn(
                           DependentClosure(Range(service_names))) :
                GroupSets(order) = GroupSets(ord)

\* The result of the handler invoked in this step.
StepResult == trace'[Len(trace')].result

NotStartCalls ==
    {"process_iter", "connections", "connections_raised", "send_signal",
     "send_signal_raised"} \cup RemoveCalls

\* C26: an invocation without an operation flag performs start-all and
\* nothing else: the operation is start_all_services, the order is the one
\* of _get_start_order, every handler invoked is start_service on the
\* member of the order whose turn it is, and a run that ends has started
\* every service of the order once.
C26_NoFlagIsStartAll ==
    (args = "none" /\ pc # "start")
    => /\ op = "start_all_services"
       /\ service_names = <<>>
       /\ gi > 0 => order = get_start_order
       /\ \A k \in 1..Len(trace) :
              /\ trace[k].service = Flatten(order)[k]
              /\ trace[k].result \in
                     {"already_running", "started", "not_running", "raised"}
       /\ \A i \in 1..Len(calls) : calls[i] \notin NotStartCalls
       /\ calls # <<>> => calls[1] = "is_service_open"
       /\ pc = "done" => Len(trace) = Len(Flatten(order))

\* An invocation without a flag has started the three services of the list.
C26_Witness ==
    /\ args = "none"
    /\ pc = "done"
    /\ Len(trace) = 3
    /\ \A k \in 1..3 : trace[k].result = "started"

\* The calls of service.installer.install().
InstallCalls ==
    {"is_installed", "makedirs", "download_file", "extract_archive",
     "create_symlinks", "remove_archive", "post_install", "brew_install",
     "copy"}

\* The positions of the calls of C in the sequence cl.
Positions(cl, C) == {i \in 1..Len(cl) : cl[i] \in C}

\* Every position of P is before every position of Q.
Before(P, Q) == \A i \in P : \A j \in Q : i < j

\* C27: start on a service whose port is not reachable runs its steps in
\* this order: the install (which changes nothing when the service is
\* installed), every config item, the launch of the start command, the
\* polling of the port.  The start command is launched at most once, and
\* not at all when the install or a config item raised.
C27_StartStepsInOrder ==
    [][(HandlerStep(StartOps) /\ ~reachable[current])
       => LET s == current
              cl == calls'
              I == Positions(cl, InstallCalls)
              C == Positions(cl, {"config_apply"})
              P == Positions(cl, {"Popen"})
              Q == Positions(cl, {"is_service_open", "sleep"}) \ {1}
          IN  /\ cl[1] = "is_service_open"
              /\ I # {}
              /\ installed[s] => \A i \in I : cl[i] \notin MutatingCalls
              /\ Before(I, C) /\ Before(I, P) /\ Before(C, P) /\ Before(P, Q)
              /\ Cardinality(P) <= 1
              /\ P # {} => /\ installed'[s]
                           /\ Cardinality(C) = configs[s]
                           /\ Q # {}
                           /\ StepResult \in {"started", "not_running"}
              /\ P = {} => /\ Q = {}
                           /\ StepResult = "raised"
      ]_vars

\* C28: in a start, stop or uninstall run a handler changes the state of
\* its own service only, and a handler that raises ends the run where it
\* is: the members of the order after it are never invoked and stay as
\* they were, and what the handlers before it did (processes started,
\* files installed or removed) is left as it is, nothing being undone.
C28_FailureAbortsWithoutCompensation ==
    [][/\ HandlerStep(StartOps \cup StopOps \cup UninstallOps)
          => LET s == current
             IN  /\ \A t \in Names \ {s} :
                        /\ installed'[t] = installed[t]
                        /\ install_dir'[t] = install_dir[t]
                        /\ reachable'[t] = reachable[t]
                 /\ StepResult = "raised"
                    => /\ pc' = "failed"
                       /\ err' = "collaborator"
                       /\ gi' = gi /\ si' = si
       /\ pc = "failed" => UNCHANGED vars
      ]_vars

\* An uninstall run over two groups failed at the second service: the
\* first is uninstalled, its files removed, and stays so.
C28_Witness ==
    /\ op \in {"uninstall_all_services", "uninstall_specific_services"}
    /\ pc = "failed"
    /\ err = "collaborator"
    /\ Len(order) = 2
    /\ Len(trace) = 2
    /\ trace[1].result = "ok"
    /\ trace[2].result = "raised"
    /\ ~installed[trace[1].service]
    /\ ~install_dir[trace[1].service]
    /\ install_dir[trace[2].service]

\* The calls of the last handler from its launch of the start command on;
\* empty when it launched nothing.
AfterLaunch ==
    LET P == Positions(calls, {"Popen"})
    IN  IF P = {}
        THEN <<>>
        ELSE LET p == CHOOSE i \in P : TRUE
             IN  SubSeq(calls, p + 1, Len(calls))

\* C29: start_service returns.  After the launch it probes the port at
\* least once and at most PollRetries (5) times, with one sleep after every
\* probe that found the port closed and nothing else in between; it
\* returns right after the first probe that finds the port open, and after
\* the last sleep when none does.
C29_PollingIsBounded ==
    (op \in StartOps /\ trace # <<>> /\ Positions(calls, {"Popen"}) # {})
    => LET q == AfterLaunch
           probes == Cardinality(Positions(q, {"is_service_open"}))
           sleeps == Cardinality(Positions(q, {"sleep"}))
       IN  /\ probes >= 1
           /\ probes <= PollRetries
           /\ \A i \in 1..Len(q) :
                  q[i] = IF i % 2 = 1 THEN "is_service_open" ELSE "sleep"
           /\ LastResult \in {"started", "not_running"}
           /\ LastResult = "started"
              => /\ q[Len(q)] = "is_service_open"
                 /\ sleeps = probes - 1
                 /\ reachable[trace[Len(trace)].service]
           /\ LastResult = "not_running"
              => /\ probes = PollRetries
                 /\ sleeps = PollRetries

\* start_service found the port open at its third probe after the launch.
C29_Witness ==
    /\ op \in StartOps
    /\ trace # <<>>
    /\ LastResult = "started"
    /\ Len(AfterLaunch) = 5

\* The orders the orderer of operation o can return for the request names,
\* one for every order in which its sets can be iterated.
OrdersOf(o, names) ==
    IF o \in SpecificOps
    THEN SpecificOrders(o, names)
    ELSE IF o \in AscendingOps
    THEN {get_start_order}
    ELSE get_stop_order

\* C30: the order computed for a descriptor list and a request is the same
\* whatever the iteration order of the sets the orderer uses: the orderer
\* can return no other order than the one it returned.
C30_OrderIsDeterministic ==
    OrderComputed => \A ord \in OrdersOf(op, service_names) : ord = order

\* C31: a *_no_deps operation asked for a name that is no service invokes
\* no handler and no collaborator, for any name of the request, and ends
\* with "Service not found".
C31_NoDepsUnknownNameFailsBeforeAnyCall ==
    (/\ op \in NoDepsOps
     /\ pc \in {"run", "done", "failed"}
     /\ ~(Range(service_names) \subseteq Names))
    => /\ trace = <<>>
       /\ calls = <<>>
       /\ NothingTouched
       /\ pc # "done"
       /\ pc = "failed" => err = "not_found"

\* The set of services an operation is to act on: every service, or the
\* closure of the request in the direction of the operation.
TargetSet ==
    IF op \in AllOps
    THEN Names
    ELSE IF op \in AscendingOps
    THEN DependencyClosure(Range(service_names))
    ELSE DependentClosure(Range(service_names))

\* C32: a computed order is a partition of its target set: every service
\* of the target set is in one group, once; no other service is in the
\* order; no group is empty.
C32_OrderIsPartition ==
    OrderComputed
    => /\ Members(order) = TargetSet
       /\ Len(Flatten(order)) = Cardinality(TargetSet)
       /\ \A g \in 1..Len(order) : order[g] # <<>>

\* A request names the same service twice, and the order computed for it
\* holds this service and another.
C32_Witness ==
    /\ OrderComputed
    /\ op \in SpecificOps
    /\ Len(service_names) = 2
    /\ service_names[1] = service_names[2]
    /\ Len(Flatten(order)) = 2

\* The handler of service d was invoked before the k-th invocation of the
\* run, and returned.
FinishedBefore(d, k) ==
    \E j \in 1..(k - 1) : trace[j].service = d /\ trace[j].result # "raised"

\* C33: in start-all and start on names, when start_service is invoked on
\* a service, it has been invoked on each of its dependencies and has
\* returned (the dependency was found reachable, or launched and polled);
\* in stop and uninstall runs, when the handler is invoked on a service,
\* the handler of each of its dependents has been invoked and has returned.
\* This holds for the invocations made and for the one the run is at.
C33_HandlersFollowDependencies ==
    (OrderComputed /\ op \in StartOps \cup StopOps \cup UninstallOps)
    => LET Needs(s) == IF op \in StartOps THEN Deps(s) ELSE dependents_map(s)
       IN  /\ \A k \in 1..Len(trace) :
                  \A d \in Needs(trace[k].service) : FinishedBefore(d, k)
           /\ pc = "run"
              => \A d \in Needs(current) : FinishedBefore(d, Len(trace) + 1)
           /\ (op \in StartOps /\ pc = "run")
              => \A d \in Deps(current) :
                     \E j \in 1..Len(trace) :
                         /\ trace[j].service = d
                         /\ trace[j].result \in
                                {"already_running", "started", "not_running"}

\* A start run is at the third service of a chain: the start of its
\* dependency and of the dependency of that one have returned.
C33_Witness ==
    /\ op \in {"start_all_services", "start_specific_services"}
    /\ pc = "run"
    /\ Len(trace) = 2
    /\ trace[2].service \in Deps(current)
    /\ trace[1].service \in Deps(trace[2].service)

\* C34: an install of a service that has a post install command returns
\* only when that command has completed since the service last became
\* installed: an install that failed in the post install command is not
\* followed by an install that returns without running it.
C34_InstallReturnsAfterHook ==
    [][LET s == current
       IN  (/\ HandlerStep(InstallOps)
            /\ post_install_cmd[s]
            /\ StepResult = "ok")
           => hook_done'[s]
      ]_vars

====
